---------------------------- MODULE Spec2Model ----------------------------
(***************************************************************************)
(* The search overlay of the documentation site (StaticSearch, the variant *)
(* with suggestions): the query text, the debounced dispatch of requests   *)
(* to the search index, the stored results and the presentation mode       *)
(* derived from them, the two selection cursors, the open/closed state and *)
(* the keyboard, pointer, timer and response events that change them.      *)
(*                                                                         *)
(* Every handler is one action: the state updates it makes and the effects *)
(* that React runs for the dependencies those updates changed.             *)
(***************************************************************************)
EXTENDS Integers, Sequences, FiniteSets, TLC

\* ------------------------------------------------------------------ bounds
\* Longest hit list the search index answers with in the model.
MaxHits == 3
\* Requests dispatched in one behaviour.
MaxRequests == 2
\* setQuery calls that share one debounce timer.
MaxBurst == 2
\* --------------------------------------------------------------- constants
\* The debounce window, in ticks of 100ms (debounce(..., 200)).
Wait == 2
Min(a, b) == IF a < b THEN a ELSE b
Max(a, b) == IF a > b THEN a ELSE b

\* ------------------------------------------------------------------- data
\* Query texts: the empty text and two single word characters.
Texts == {"", "a", "b"}

\* A SearchResult: its identity is its href.
Hit(h, l, p) == [href |-> h, library |-> l, page |-> p]

\* The results the search index can answer with.
Hits == { Hit("/h1", "library", "Frame"),
          Hit("/h2", "library", "Scroll"),
          Hit("/h3", "library", "Frame") }

\* The hit lists of a response: at most MaxHits distinct results.
HitLists == { s \in UNION { [1..n -> Hits] : n \in 0..MaxHits } :
                \A i, j \in 1..Len(s) : i # j => s[i] # s[j] }

\* The results of both libraries: optionalFilters rank the hits of the other
\* library lower, they do not exclude them.
CatHits == Hits \cup { Hit("/m1", "motion", "Frame"),
                       Hit("/m2", "motion", "Scroll"),
                       Hit("/m3", "motion", "Frame") }

\* The hit lists over both libraries: at most MaxHits distinct results.
CatLists == { s \in UNION { [1..n -> CatHits] : n \in 0..MaxHits } :
                \A i, j \in 1..Len(s) : i # j => s[i] # s[j] }

librarySuggestedResults ==
    << Hit("/api/frame/#animationprops.animate", "library", "Frame"),
       Hit("/api/frame/#draggableprops.drag", "library", "Frame"),
       Hit("/api/scroll/", "library", "Scroll"),
       Hit("/api/property-controls/", "library", "Property Controls") >>

\* useMemo(() => isMotion() ? motionSuggestedResults : librarySuggestedResults)
suggestedResults == librarySuggestedResults

\* useState<SearchResult[] | null>(null): null, or an array of results.
Null == [isArray |-> FALSE, items |-> << >>]
Array(s) == [isArray |-> TRUE, items |-> s]

\* The debounce timer of search: idle, or pending with the last arguments.
NoTimer == [pending |-> FALSE, lastArgs |-> ""]
Timer(v) == [pending |-> TRUE, lastArgs |-> v]

\* A call a handler makes to an external collaborator.
Call(name, arg) == [call |-> name, arg |-> arg]

\* document.title, as the pieces getPage tells apart: text, the separator
\* " | " and a bare "|".
Titles == { << "Framer API" >>,
            << "Framer API", " | ", "Frame" >>,
            << "Framer", "|", "API" >> }

\* No page name: getPage returned null (or the empty string).
NoPage == << >>

\* The position of the last separator " | " in title, 0 when there is none.
lastSeparator(title) ==
    IF \E i \in 1..Len(title) : title[i] = " | "
    THEN CHOOSE i \in 1..Len(title) :
            title[i] = " | " /\ \A j \in (i + 1)..Len(title) : title[j] # " | "
    ELSE 0

\* getPage: null unless the title includes "|"; else what follows the last
\* " | " (the greedy match of /.* \| (.*)/), null when nothing matches.
getPage(title) ==
    IF ~\E i \in 1..Len(title) : title[i] \in {"|", " | "} THEN NoPage
    ELSE IF lastSeparator(title) = 0 THEN NoPage
    ELSE SubSeq(title, lastSeparator(title) + 1, Len(title))

\* The page size of a request.
hitsPerPage == 10

\* An optional filter "facet:value".
Filter(facet, v) == [facet |-> facet, value |-> v]

\* The options of index.search: the filter of the library the site section
\* belongs to (isMotion() is false, as for suggestedResults), and the filter
\* of the page when getPage gave one.
searchOptions(title) ==
    [hitsPerPage |-> hitsPerPage,
     optionalFilters |->
        << Filter("library", "library") >> \o
        (IF getPage(title) # NoPage
         THEN << Filter("page", getPage(title)) >> ELSE << >>)]

\* The call index.search(text, options).
Request(text, title) ==
    [call |-> "index.search", arg |-> text, options |-> searchOptions(title)]


VARIABLES
    value,          \* the query text (useState(""))
    isOpen,         \* the overlay is open (useState(false))
    results,        \* the stored results (useState(null))
    resultIndex,    \* the index of the results cursor (useIndexItem)
    suggestedIndex, \* the index of the suggestions cursor (useIndexItem)
    timer,          \* the debounce timer of search
    elapsed,        \* ticks since the last call of search, while pending
    inflight,       \* the ids of the requests dispatched and not yet answered
    nextId,         \* the number of requests dispatched so far
    event,          \* the event handled last
    calls,          \* the external calls made by its handler, in order
    burst,          \* the texts of the search calls sharing the last timer
    mounted,        \* the component is mounted
    listeners       \* the keydown listeners of window, in order of addition

vars == << value, isOpen, results, resultIndex, suggestedIndex, timer,
           elapsed, inflight, nextId, event, calls, burst, mounted,
           listeners >>

\* ------------------------------------------------------- result categorizer
\* The property of a result that groupBy is called with.
Field(x, f) == IF f = "library" THEN x.library ELSE x.page

\* The values of property f over s, each once, in order of last occurrence.
RECURSIVE groupKeysLastSeen(_, _)
groupKeysLastSeen(s, f) ==
    IF s = << >> THEN << >>
    ELSE LET k == Field(s[Len(s)], f)
         IN  SelectSeq(groupKeysLastSeen(SubSeq(s, 1, Len(s) - 1), f),
                       LAMBDA j : j # k) \o << k >>

\* The values of property f over s, each once, in order of first occurrence.
RECURSIVE groupKeys(_, _)
groupKeys(s, f) ==
    IF s = << >> THEN << >>
    ELSE LET k == Field(Head(s), f)
         IN  << k >> \o SelectSeq(groupKeys(Tail(s), f), LAMBDA j : j # k)

\* One bucket per key: the elements of s with that value of f, in input order.
RECURSIVE buckets(_, _, _)
buckets(keys, s, f) ==
    IF keys = << >> THEN << >>
    ELSE << [key |-> Head(keys),
             items |-> SelectSeq(s, LAMBDA x : Field(x, f) = Head(keys))] >>
         \o buckets(Tail(keys), s, f)

\* lodash groupBy(s, f): an object whose keys are in insertion order.
groupBy(s, f) == buckets(groupKeys(s, f), s, f)

\* pageDividedResults[library] = groupBy(results, "page"), for every library.
RECURSIVE pageDivided(_)
pageDivided(libraryDividedResults) ==
    IF libraryDividedResults = << >> THEN << >>
    ELSE << [key |-> Head(libraryDividedResults).key,
             items |-> groupBy(Head(libraryDividedResults).items, "page")] >>
         \o pageDivided(Tail(libraryDividedResults))

\* A categoriser that divides by page only and skips the library level.
CategoriseByPageOnly(s) ==
    pageDivided(<< [key |-> "library", items |-> s] >>)

\* categorisedResults of a list: library -> page -> results.
Categorise(s) == pageDivided(groupBy(s, "library"))

\* getDeepValues: the leaves of the nested object, in key order.
RECURSIVE getDeepValues(_)
getDeepValues(c) ==
    IF c = << >> THEN << >>
    ELSE (IF "href" \in DOMAIN Head(c)
          THEN << Head(c) >>
          ELSE getDeepValues(Head(c).items))
         \o getDeepValues(Tail(c))

flattenSearchResults(c) == getDeepValues(c)

\* The two memoised values (useMemo), tabulated over the hit lists of one
\* library; they are computed for every other list.
RECURSIVE categorisedTable(_)
categorisedTable(S) ==
    IF S = {} THEN << >>
    ELSE LET s == CHOOSE x \in S : TRUE
         IN  (s :> Categorise(s)) @@ categorisedTable(S \ {s})

categorisedOf == categorisedTable(HitLists)

RECURSIVE indexedTable(_)
indexedTable(S) ==
    IF S = {} THEN << >>
    ELSE LET s == CHOOSE x \in S : TRUE
         IN  (s :> flattenSearchResults(categorisedOf[s]))
             @@ indexedTable(S \ {s})

indexedOf == indexedTable(HitLists)

categorisedResults ==
    IF results.isArray
    THEN IF results.items \in DOMAIN categorisedOf
         THEN categorisedOf[results.items]
         ELSE Categorise(results.items)
    ELSE << >>

indexedResults ==
    IF results.isArray /\ results.items \in DOMAIN indexedOf
    THEN indexedOf[results.items]
    ELSE flattenSearchResults(categorisedResults)

\* ------------------------------------------------------- presentation mode
\* isSuggesting that forgets the empty array: !results.
isSuggestingNullOnly == ~results.isArray

isSuggesting == ~results.isArray \/ Len(results.items) = 0

\* isEmpty that tests only Array.isArray(results).
isEmptyAnyArray == results.isArray

isEmpty == isSuggesting /\ results.isArray

mode == IF ~isSuggesting THEN "Showing"
        ELSE IF isEmpty THEN "Empty" ELSE "Suggesting"

\* The state of the overlay: Closed, or the presentation mode while open.
navState == IF isOpen THEN mode ELSE "Closed"

\* An event delivered to the component: its kind, its text or key, and the
\* state of the overlay it is delivered in.
Event(type, arg) == [type |-> type, arg |-> arg, from |-> navState]

\* The debounce timer firing, with document.title as getPage reads it then.
TimerEvent(title) ==
    [type |-> "timer", arg |-> "", from |-> navState, title |-> title]

\* A keydown delivered while the overlay is closed, with what the closed
\* branch of handleKey reads: whether meta, ctrl or alt is held, and whether
\* document.activeElement is the body (or null).
KeyEvent(key, modifier, bodyFocused) ==
    [type |-> "keydown", arg |-> key, from |-> navState,
     modifier |-> modifier, bodyFocused |-> bodyFocused]

\* -------------------------------------------------------- selection cursor
\* useIndexItem over a list of length n, at index i.
cursorNext(i, n) == IF n > 0 THEN Min(i + 1, n - 1) ELSE i
cursorPrevious(i) == Max(i - 1, 0)
cursorSet(j, i, n) == IF n = 0 THEN i ELSE Max(0, Min(j, n - 1))
\* The selected item is defined when the index is inside the list.
hasSelected(i, n) == i < n

selectedResult == indexedResults[resultIndex + 1]
selectedSuggestedResult == suggestedResults[suggestedIndex + 1]

\* The list the dropdown renders and the keyboard acts on.
activeList == IF isSuggesting THEN suggestedResults ELSE indexedResults

\* ------------------------------------------------------------ the dropdown
\* Array.prototype.findIndex: the position of the first element equal to x.
findIndex(s, x) ==
    IF \E i \in 1..Len(s) : s[i] = x
    THEN (CHOOSE i \in 1..Len(s) :
              s[i] = x /\ \A j \in 1..(i - 1) : s[j] # x) - 1
    ELSE -1

\* A rendered SearchResult: the result and its data-index.
Item(result, index) == [result |-> result, index |-> index]

\* categoryResults.map that attaches the position inside the category.
renderCategoryResultsMapIndex(categoryResults, indexed) ==
    [i \in 1..Len(categoryResults) |-> Item(categoryResults[i], i - 1)]

\* categoryResults.map: index = indexedResults.findIndex(r => r === result).
renderCategoryResults(categoryResults, indexed) ==
    [i \in 1..Len(categoryResults) |->
        Item(categoryResults[i], findIndex(indexed, categoryResults[i]))]

\* categories.map over the pages of one library.
RECURSIVE renderCategories(_, _)
renderCategories(sectionResults, indexed) ==
    IF sectionResults = << >> THEN << >>
    ELSE renderCategoryResults(Head(sectionResults).items, indexed)
         \o renderCategories(Tail(sectionResults), indexed)

\* sections.map over Object.entries(categorisedResults).
RECURSIVE renderSections(_, _)
renderSections(sections, indexed) ==
    IF sections = << >> THEN << >>
    ELSE renderCategories(Head(sections).items, indexed)
         \o renderSections(Tail(sections), indexed)

\* SearchEmpty: suggestedResults.map((result, index) => ...).
SearchEmpty ==
    [i \in 1..Len(suggestedResults) |-> Item(suggestedResults[i], i - 1)]

\* SearchResults: the rendered items, in document order.
SearchResults ==
    IF isSuggesting THEN SearchEmpty
    ELSE renderSections(categorisedResults, indexedResults)

\* What is on the screen: the dropdown is rendered while isOpen; it renders
\* SearchEmpty, the suggestion list, when isSuggesting and the categorised
\* results otherwise; SearchEmpty renders the notice "No results for ..."
\* above the suggestions when isEmpty.
suggestionsShown == isOpen /\ isSuggesting
categorisedShown == isOpen /\ ~isSuggesting
noticeShown == suggestionsShown /\ isEmpty

\* ------------------------------------------------------ keydown subscription
\* The lists the two memoised values are tabulated for.
Tabulated == DOMAIN indexedOf

\* indexedResults of a render whose stored results are res.
indexedResultsOf(res) ==
    IF ~res.isArray \/ res.items = << >> THEN << >>
    ELSE IF res.items \in Tabulated THEN indexedOf[res.items]
    ELSE flattenSearchResults(Categorise(res.items))

\* useIndexItem's selected item, list[index], named by its href: undefined
\* when the index is outside the list.
selectedOf(list, i) == IF i < Len(list) THEN list[i + 1].href ELSE "undefined"

\* The function handleKey that useCallback creates in a render with these
\* values of isOpen, results and the two indices, as the values its body
\* reads, which are its dependencies: << isOpen, isSuggesting,
\* selectedResult, selectedSuggestedResult >> (indexedResults is computed
\* once).
closureOf(open, res, ri, si) ==
    CHOOSE h \in
        { << open, ~res.isArray \/ Len(res.items) = 0,
             selectedOf(indexed, ri), selectedOf(suggestedResults, si) >> :
          indexed \in { indexedResultsOf(res) } } : TRUE

\* The function handleKey of the current render.
handleKeyClosure == closureOf(isOpen, results, resultIndex, suggestedIndex)

\* What the function h reads as isOpen, as isSuggesting and as the two
\* selected items.
closedOver(h) ==
    [isOpen |-> h[1], isSuggesting |-> h[2],
     selectedResult |-> h[3], selectedSuggestedResult |-> h[4]]

\* An effect on [handleKey] that adds the new listener and has no cleanup.
keydownEffectNoCleanup ==
    \E next \in {closureOf(isOpen', results', resultIndex', suggestedIndex')} :
        listeners' = IF mounted /\ next # listeners[Len(listeners)]
                     THEN Append(listeners, next)
                     ELSE listeners

\* The effect on [handleKey], run by the render after a handler: useCallback
\* keeps the function of the last render, the one subscribed, unless a
\* dependency changed; then the cleanup removes the listener the effect added
\* last and the effect adds the new function.
keydownEffect ==
    \E next \in {closureOf(isOpen', results', resultIndex', suggestedIndex')} :
        listeners' = IF mounted /\ next # listeners[Len(listeners)]
                     THEN Append(SubSeq(listeners, 1, Len(listeners) - 1),
                                 next)
                     ELSE listeners

\* The render that follows a handler: the component stays as it is, mounted
\* or not, and the effect on [handleKey] runs.
Render ==
    /\ mounted' = mounted
    /\ keydownEffect

\* ------------------------------------------------------------------ effects
\* The effects on [isOpen] and on [isSuggesting], run after a handler changed
\* isOpen or results: they read the primed values of both.
Effects ==
    LET closed == isOpen /\ ~isOpen'
        toSuggesting == isSuggesting' /\ ~isSuggesting
        toShowing == ~isSuggesting' /\ isSuggesting
    IN  /\ resultIndex' =
              IF closed \/ toSuggesting
              THEN cursorSet(0, resultIndex, Len(indexedResults'))
              ELSE resultIndex
        /\ suggestedIndex' =
              IF closed \/ toShowing
              THEN cursorSet(0, suggestedIndex, Len(suggestedResults))
              ELSE suggestedIndex

TypeOK ==
    /\ value \in Texts
    /\ isOpen \in BOOLEAN
    /\ results \in {Null} \cup { Array(s) : s \in CatLists }
    /\ resultIndex \in 0..(MaxHits - 1)
    /\ suggestedIndex \in 0..(Len(suggestedResults) - 1)
    /\ timer \in {NoTimer} \cup { Timer(v) : v \in Texts \ {""} }
    /\ elapsed \in 0..Wait
    /\ nextId \in 0..MaxRequests
    /\ inflight \subseteq 1..nextId
    /\ Len(calls) <= 1
    /\ Len(burst) <= MaxBurst
    /\ mounted \in BOOLEAN
    /\ Len(listeners) <= 1

Init ==
    /\ value = ""
    /\ isOpen = FALSE
    /\ results = Null
    /\ resultIndex = 0
    /\ suggestedIndex = 0
    /\ timer = NoTimer
    /\ elapsed = 0
    /\ inflight = {}
    /\ nextId = 0
    /\ event = [type |-> "mount", arg |-> "", from |-> "Closed"]
    /\ calls = << >>
    /\ burst = << >>
    /\ mounted = TRUE
    /\ listeners = << handleKeyClosure >>

\* ------------------------------------------------------------ query dispatch
\* handleChange that keeps the stored results when the text is cleared.
setQueryKeepResults(v) ==
    /\ value' = v
    /\ results' = results
    /\ IF v # ""
       THEN /\ timer.pending => Len(burst) < MaxBurst
            /\ timer' = Timer(v)
            /\ elapsed' = 0
            /\ burst' = IF timer.pending THEN Append(burst, v) ELSE << v >>
            /\ calls' = << >>
       ELSE /\ timer' = NoTimer
            /\ elapsed' = 0
            /\ burst' = << >>
            /\ calls' = << Call("search.cancel", timer.lastArgs) >>

\* handleChange that calls search(value) for every text, the empty one too.
setQueryAlwaysSearch(v) ==
    /\ value' = v
    /\ timer.pending => Len(burst) < MaxBurst
    /\ timer' = Timer(v)
    /\ elapsed' = 0
    /\ burst' = IF timer.pending THEN Append(burst, v) ELSE << v >>
    /\ results' = IF v = "" THEN Null ELSE results
    /\ calls' = << >>

\* handleChange whose search call leaves a pending timer running with its
\* old arguments instead of replacing it.
setQueryKeepPending(v) ==
    /\ value' = v
    /\ IF v # ""
       THEN /\ timer.pending => Len(burst) < MaxBurst
            /\ timer' = IF timer.pending THEN timer ELSE Timer(v)
            /\ elapsed' = IF timer.pending THEN elapsed ELSE 0
            /\ burst' = IF timer.pending THEN Append(burst, v) ELSE << v >>
            /\ results' = results
            /\ calls' = << >>
       ELSE /\ results' = Null
            /\ timer' = NoTimer
            /\ elapsed' = 0
            /\ burst' = << >>
            /\ calls' = << Call("search.cancel", timer.lastArgs) >>

\* The body of handleChange for the text v: setValue, then search(v) or
\* setResults(null) and search.cancel().
setQuery(v) ==
    /\ value' = v
    /\ IF v # ""
       THEN /\ timer.pending => Len(burst) < MaxBurst
            /\ timer' = Timer(v)
            /\ elapsed' = 0
            /\ burst' = IF timer.pending THEN Append(burst, v) ELSE << v >>
            /\ results' = results
            /\ calls' = << >>
       ELSE /\ results' = Null
            /\ timer' = NoTimer
            /\ elapsed' = 0
            /\ burst' = << >>
            /\ calls' = << Call("search.cancel", timer.lastArgs) >>

\* The user edits the input, which has the focus while the overlay is open.
handleChange ==
    /\ mounted
    /\ isOpen
    /\ \E v \in Texts \ {value} :
        /\ setQuery(v)
        /\ event' = Event("change", v)
    /\ isOpen' = isOpen
    /\ Effects
    /\ Render
    /\ UNCHANGED << inflight, nextId >>

\* 100ms pass while the debounce timer is pending.
Tick ==
    /\ timer.pending
    /\ elapsed < Wait
    /\ elapsed' = elapsed + 1
    /\ event' = Event("tick", "")
    /\ calls' = << >>
    /\ UNCHANGED << value, isOpen, results, resultIndex, suggestedIndex,
                    timer, inflight, nextId, burst, mounted, listeners >>

\* A timer that fires without waiting for the quiet period.
searchWithoutWait ==
    /\ timer.pending
    /\ nextId < MaxRequests
    /\ nextId' = nextId + 1
    /\ inflight' = inflight \cup {nextId + 1}
    /\ \E title \in Titles :
        /\ event' = TimerEvent(title)
        /\ calls' = << Request(timer.lastArgs, title) >>
    /\ timer' = NoTimer
    /\ elapsed' = 0
    /\ UNCHANGED << value, isOpen, results, resultIndex, suggestedIndex,
                    burst, mounted, listeners >>

\* The debounce timer fires after the quiet period: the debounced function
\* dispatches the request index.search(value, {hitsPerPage: 10, ...}).
search ==
    /\ timer.pending
    /\ elapsed = Wait
    /\ nextId < MaxRequests
    /\ nextId' = nextId + 1
    /\ inflight' = inflight \cup {nextId + 1}
    /\ \E title \in Titles :
        /\ event' = TimerEvent(title)
        /\ calls' = << Request(timer.lastArgs, title) >>
    /\ timer' = NoTimer
    /\ elapsed' = 0
    /\ UNCHANGED << value, isOpen, results, resultIndex, suggestedIndex,
                    burst, mounted, listeners >>

\* A then that opens the overlay to show the response.
searchThenOpens ==
    \E r \in inflight, hits \in HitLists :
        /\ inflight' = inflight \ {r}
        /\ results' = IF mounted THEN Array(hits) ELSE results
        /\ isOpen' = mounted
        /\ Effects
        /\ Render
        /\ event' = Event("response", "")
        /\ calls' = << >>
        /\ UNCHANGED << value, timer, elapsed, nextId, burst >>

\* The response of request r arrives with the list hits.
searchThen ==
    \E r \in inflight, hits \in HitLists :
        /\ inflight' = inflight \ {r}
        /\ results' = IF mounted THEN Array(hits) ELSE results
        /\ isOpen' = isOpen
        /\ Effects
        /\ Render
        /\ event' = Event("response", "")
        /\ calls' = << >>
        /\ UNCHANGED << value, timer, elapsed, nextId, burst >>

\* A catch that only logs the error.
searchCatchLogOnly ==
    \E r \in inflight :
        /\ inflight' = inflight \ {r}
        /\ event' = Event("failure", "")
        /\ calls' = << Call("console.error", "") >>
        /\ UNCHANGED << value, isOpen, results, resultIndex, suggestedIndex,
                        timer, elapsed, nextId, burst, mounted, listeners >>

\* Request r fails.
searchCatch ==
    \E r \in inflight :
        /\ inflight' = inflight \ {r}
        /\ results' = IF mounted THEN Array(<< >>) ELSE results
        /\ isOpen' = isOpen
        /\ Effects
        /\ Render
        /\ event' = Event("failure", "")
        /\ calls' = << Call("console.error", "") >>
        /\ UNCHANGED << value, timer, elapsed, nextId, burst >>

handleFocus ==
    /\ mounted
    /\ isOpen' = TRUE
    /\ event' = Event("focus", "")
    /\ calls' = << >>
    /\ UNCHANGED << value, results, resultIndex, suggestedIndex, timer,
                    elapsed, inflight, nextId, burst >>
    /\ Render

\* A click outside the input and dropdown, or on the esc button.
handleClose ==
    /\ mounted
    /\ isOpen' = FALSE
    /\ results' = results
    /\ Effects
    /\ Render
    /\ event' = Event("close", "")
    /\ calls' = << >>
    /\ UNCHANGED << value, timer, elapsed, inflight, nextId, burst >>

\* ------------------------------------------------------------------ keyboard
Keys == {"ArrowUp", "ArrowDown", "Escape", "Enter", "a", "/", "-"}

\* The keys that produce one printable character.
Printable == {"a", "/", "-"}

\* A test that accepts every single character: /^.$/.
isWordKeyAnyCharacter(key) == key \in Printable

\* A test without the end anchor, /^\w/: it accepts the named keys too.
isWordKeyUnanchored(key) == key \notin {"/", "-"}

\* The keys that are one letter, digit or underscore.
WordKeys == {"a"}

\* /^\w$/.test(key): one letter, digit or underscore.
isWordKey(key) == key \in WordKeys

\* ArrowUp that always moves the results cursor, whatever the mode.
keyArrowUpResultsOnly ==
    /\ resultIndex' = cursorPrevious(resultIndex)
    /\ suggestedIndex' = suggestedIndex
    /\ calls' = << >>
    /\ UNCHANGED << value, isOpen, results, timer, elapsed, inflight, nextId,
                    burst >>

keyArrowUp ==
    /\ IF isSuggesting
       THEN /\ suggestedIndex' = cursorPrevious(suggestedIndex)
            /\ resultIndex' = resultIndex
       ELSE /\ resultIndex' = cursorPrevious(resultIndex)
            /\ suggestedIndex' = suggestedIndex
    /\ calls' = << >>
    /\ UNCHANGED << value, isOpen, results, timer, elapsed, inflight, nextId,
                    burst >>

\* ArrowDown that calls the next function of both cursors.
keyArrowDownBothCursors ==
    /\ suggestedIndex' = cursorNext(suggestedIndex, Len(suggestedResults))
    /\ resultIndex' = cursorNext(resultIndex, Len(indexedResults))
    /\ calls' = << >>
    /\ UNCHANGED << value, isOpen, results, timer, elapsed, inflight, nextId,
                    burst >>

\* ArrowDown that calls the previous function of the active cursor.
keyArrowDownCallsPrevious ==
    /\ IF isSuggesting
       THEN /\ suggestedIndex' = cursorPrevious(suggestedIndex)
            /\ resultIndex' = resultIndex
       ELSE /\ resultIndex' = cursorPrevious(resultIndex)
            /\ suggestedIndex' = suggestedIndex
    /\ calls' = << >>
    /\ UNCHANGED << value, isOpen, results, timer, elapsed, inflight, nextId,
                    burst >>

keyArrowDown ==
    /\ IF isSuggesting
       THEN /\ suggestedIndex' =
                  cursorNext(suggestedIndex, Len(suggestedResults))
            /\ resultIndex' = resultIndex
       ELSE /\ resultIndex' = cursorNext(resultIndex, Len(indexedResults))
            /\ suggestedIndex' = suggestedIndex
    /\ calls' = << >>
    /\ UNCHANGED << value, isOpen, results, timer, elapsed, inflight, nextId,
                    burst >>

\* Escape that closes the overlay only while results are showing.
keyEscapeShowingOnly ==
    /\ isOpen' = isSuggesting
    /\ results' = results
    /\ Effects
    /\ calls' = << >>
    /\ UNCHANGED << value, timer, elapsed, inflight, nextId, burst >>

keyEscape ==
    /\ isOpen' = FALSE
    /\ results' = results
    /\ Effects
    /\ calls' = << >>
    /\ UNCHANGED << value, timer, elapsed, inflight, nextId, burst >>

\* Enter that navigates without closing the overlay.
keyEnterNoClose ==
    /\ calls' = IF isSuggesting
                THEN IF hasSelected(suggestedIndex, Len(suggestedResults))
                     THEN << Call("navigateTo", selectedSuggestedResult.href) >>
                     ELSE << Call("TypeError", "") >>
                ELSE IF hasSelected(resultIndex, Len(indexedResults))
                     THEN << Call("navigateTo", selectedResult.href) >>
                     ELSE << Call("TypeError", "") >>
    /\ UNCHANGED << value, isOpen, results, resultIndex, suggestedIndex,
                    timer, elapsed, inflight, nextId, burst >>

\* Enter that always reads the results cursor, whatever the mode.
keyEnterResultsOnly ==
    /\ isOpen' = FALSE
    /\ results' = results
    /\ calls' = IF hasSelected(resultIndex, Len(indexedResults))
                THEN << Call("navigateTo", selectedResult.href) >>
                ELSE << Call("TypeError", "") >>
    /\ Effects
    /\ UNCHANGED << value, timer, elapsed, inflight, nextId, burst >>

\* Enter that reads and assigns the href first and calls setOpen(false)
\* after it: a TypeError leaves the overlay open.
keyEnterNavigateFirst ==
    LET selected == IF isSuggesting
                    THEN hasSelected(suggestedIndex, Len(suggestedResults))
                    ELSE hasSelected(resultIndex, Len(indexedResults))
    IN  /\ calls' = IF ~selected THEN << Call("TypeError", "") >>
                    ELSE IF isSuggesting
                    THEN << Call("navigateTo", selectedSuggestedResult.href) >>
                    ELSE << Call("navigateTo", selectedResult.href) >>
        /\ isOpen' = IF selected THEN FALSE ELSE isOpen
        /\ results' = results
        /\ Effects
        /\ UNCHANGED << value, timer, elapsed, inflight, nextId, burst >>

\* setOpen(false), then window.location.href = <selected>.href, which raises
\* a TypeError when the selected item is undefined.
keyEnter ==
    /\ isOpen' = FALSE
    /\ results' = results
    /\ calls' = IF isSuggesting
                THEN IF hasSelected(suggestedIndex, Len(suggestedResults))
                     THEN << Call("navigateTo", selectedSuggestedResult.href) >>
                     ELSE << Call("TypeError", "") >>
                ELSE IF hasSelected(resultIndex, Len(indexedResults))
                     THEN << Call("navigateTo", selectedResult.href) >>
                     ELSE << Call("TypeError", "") >>
    /\ Effects
    /\ UNCHANGED << value, timer, elapsed, inflight, nextId, burst >>

\* A closed branch that opens the overlay without forwarding the character.
keyClosedOpenOnly(key, modifier, bodyFocused) ==
    IF bodyFocused /\ isWordKey(key) /\ ~modifier
    THEN /\ isOpen' = TRUE
         /\ results' = results
         /\ Effects
         /\ calls' = << >>
         /\ UNCHANGED << value, timer, elapsed, inflight, nextId, burst >>
    ELSE /\ calls' = << >>
         /\ UNCHANGED << value, isOpen, results, resultIndex, suggestedIndex,
                         timer, elapsed, inflight, nextId, burst >>

\* A closed branch that does not look at the modifier keys.
keyClosedAnyModifier(key, modifier, bodyFocused) ==
    IF bodyFocused /\ isWordKey(key)
    THEN /\ setQuery(key)
         /\ isOpen' = TRUE
         /\ Effects
         /\ UNCHANGED << inflight, nextId >>
    ELSE /\ calls' = << >>
         /\ UNCHANGED << value, isOpen, results, resultIndex, suggestedIndex,
                         timer, elapsed, inflight, nextId, burst >>

\* The branch of handleKey taken while the overlay is closed.
keyClosed(key, modifier, bodyFocused) ==
    IF bodyFocused /\ isWordKey(key) /\ ~modifier
    THEN /\ setQuery(key)
         /\ isOpen' = TRUE
         /\ Effects
         /\ UNCHANGED << inflight, nextId >>
    ELSE /\ calls' = << >>
         /\ UNCHANGED << value, isOpen, results, resultIndex, suggestedIndex,
                         timer, elapsed, inflight, nextId, burst >>

\* The body of handleKey for the function h: the switch on the key while h
\* was created open, the closed branch otherwise.
handleKeyBody(h, key) ==
    IF h[1]
    THEN /\ event' = Event("keydown", key)
         /\ CASE key = "ArrowUp" -> keyArrowUp
              [] key = "ArrowDown" -> keyArrowDown
              [] key = "Escape" -> keyEscape
              [] key = "Enter" -> keyEnter
              [] OTHER ->
                    /\ calls' = << >>
                    /\ UNCHANGED << value, isOpen, results, resultIndex,
                                    suggestedIndex, timer, elapsed,
                                    inflight, nextId, burst >>
    ELSE \E modifier \in BOOLEAN, bodyFocused \in BOOLEAN :
            /\ key \notin WordKeys => (~modifier /\ bodyFocused)
            /\ event' = KeyEvent(key, modifier, bodyFocused)
            /\ keyClosed(key, modifier, bodyFocused)

\* A keydown event, delivered to a listener of window: the key and, read only
\* while the overlay is closed, whether meta, ctrl or alt is held and whether
\* document.activeElement is the body (or null); the two are varied for the
\* word characters, the only keys the closed branch acts on.
handleKey ==
    \E i \in 1..Len(listeners), key \in Keys :
        /\ handleKeyBody(listeners[i], key)
        /\ Render

\* The attribute data-index of the rendered item with index i: a string.
dataIndex(i) == ToString(i)

\* The number a string of digits is coerced to by Math.min and Math.max.
Number(index) == CHOOSE n \in 0..9 : ToString(n) = index

\* A pointer-enter that always calls setResult, whatever list is rendered.
handleResultHoverResultsCursor ==
    /\ mounted
    /\ isOpen
    /\ \E i \in 0..(Len(activeList) - 1) :
        /\ resultIndex' =
              cursorSet(Number(dataIndex(i)), resultIndex, Len(indexedResults))
        /\ suggestedIndex' = suggestedIndex
        /\ event' = Event("pointerenter", dataIndex(i))
    /\ calls' = << >>
    /\ UNCHANGED << value, isOpen, results, timer, elapsed, inflight, nextId,
                    burst >>
    /\ Render

\* A pointer-enter on the rendered item whose data-index is i: the handler
\* reads event.currentTarget.dataset.index, a string, and passes it to
\* onResultChange, the set function of the cursor of the list rendered.
handleResultHover ==
    /\ mounted
    /\ isOpen
    /\ \E i \in 0..(Len(activeList) - 1) :
        /\ IF isSuggesting
           THEN /\ suggestedIndex' =
                       cursorSet(Number(dataIndex(i)), suggestedIndex,
                                 Len(suggestedResults))
                /\ resultIndex' = resultIndex
           ELSE /\ resultIndex' =
                       cursorSet(Number(dataIndex(i)), resultIndex,
                                 Len(indexedResults))
                /\ suggestedIndex' = suggestedIndex
        /\ event' = Event("pointerenter", dataIndex(i))
    /\ calls' = << >>
    /\ UNCHANGED << value, isOpen, results, timer, elapsed, inflight, nextId,
                    burst >>
    /\ Render

Next ==
    \/ handleChange
    \/ Tick
    \/ search
    \/ searchThen
    \/ searchCatch
    \/ handleFocus
    \/ handleClose
    \/ handleKey
    \/ handleResultHover

Spec == Init /\ [][Next]_vars

\* --------------------------------------------------------------- the unmount
\* React unmounts the component: the cleanup of the effect on [handleKey]
\* removes the listener it added last, and the state of the component is
\* discarded (the variables keep its initial values from then on).  The
\* debounce timer and the requests in flight are not part of the component:
\* nothing cancels them.
unmount ==
    /\ mounted
    /\ mounted' = FALSE
    /\ listeners' = SubSeq(listeners, 1, Len(listeners) - 1)
    /\ event' = Event("unmount", "")
    /\ calls' = << >>
    /\ value' = ""
    /\ isOpen' = FALSE
    /\ results' = Null
    /\ resultIndex' = 0
    /\ suggestedIndex' = 0
    /\ UNCHANGED << timer, elapsed, inflight, nextId, burst >>

NextLifecycle ==
    \/ Next
    \/ unmount

SpecLifecycle == Init /\ [][NextLifecycle]_vars

\* ------------------------------------------- the categoriser under traversal
\* The overlay is open and the user walks through the dropdown: it shows the
\* suggestions before any query, or the stored response of the query "a",
\* any list of results of both libraries.
InitCategoriser ==
    /\ isOpen = TRUE
    /\ results \in {Null} \cup { Array(s) : s \in CatLists }
    /\ value = IF results.isArray THEN "a" ELSE ""
    /\ resultIndex = 0
    /\ suggestedIndex = 0
    /\ timer = NoTimer
    /\ elapsed = 0
    /\ inflight = {}
    /\ nextId = IF results.isArray THEN 1 ELSE 0
    /\ event = IF results.isArray
               THEN [type |-> "response", arg |-> "", from |-> "Suggesting"]
               ELSE [type |-> "focus", arg |-> "", from |-> "Closed"]
    /\ calls = << >>
    /\ burst = IF results.isArray THEN << "a" >> ELSE << >>
    /\ mounted = TRUE
    /\ listeners = << handleKeyClosure >>

\* The ArrowUp and ArrowDown cases of handleKey.
handleKeyArrow ==
    /\ \E i \in 1..Len(listeners) : listeners[i][1]
    /\ \E key \in {"ArrowUp", "ArrowDown"} :
        /\ event' = Event("keydown", key)
        /\ IF key = "ArrowUp" THEN keyArrowUp ELSE keyArrowDown
    /\ Render

NextCategoriser ==
    \/ handleKeyArrow
    \/ handleResultHover

SpecCategoriser == InitCategoriser /\ [][NextCategoriser]_vars

\* ===================================================================== claims
\* The calls of the last handler to the collaborator named name.
callsTo(name) == SelectSeq(calls, LAMBDA c : c.call = name)

\* The ids of the requests whose response or failure has arrived.
answered == (1..nextId) \ inflight

\* A step in which the response or the failure of request r arrives.
arrives(r) == r \in inflight /\ r \notin inflight'

\* C1: when the response of a request A arrives after the response of a
\* request B that was dispatched after A, the response of A is discarded: the
\* stored results stay what they were.
C1_StaleResponseDiscarded ==
    [][\A a \in inflight :
         (arrives(a) /\ \E b \in answered : b > a) => results' = results]_vars

\* C2: a request is dispatched only when the debounce window has passed since
\* the last setQuery call of a burst, it is the only request of that burst, and
\* its query text is the text of the final call of the burst.
C2_BurstDispatchesFinalCall ==
    [][(nextId' # nextId \/ callsTo("index.search")' # << >>) =>
          /\ timer.pending
          /\ elapsed = Wait
          /\ nextId' = nextId + 1
          /\ inflight' = inflight \cup {nextId'}
          /\ burst # << >>
          /\ burst' = burst
          /\ Len(calls') = 1
          /\ calls'[1].call = "index.search"
          /\ calls'[1].arg = burst[Len(burst)]
          /\ ~timer'.pending]_vars

\* A request for "b" was dispatched for the burst of setQuery("a"),
\* setQuery("b").
C2_Witness ==
    /\ burst = << "a", "b" >>
    /\ Len(calls) = 1
    /\ calls[1].call = "index.search"
    /\ calls[1].arg = "b"
    /\ nextId \in inflight

\* C3: setQuery with the empty text leaves, in the same step, the stored
\* results cleared and the mode Suggesting, whatever the mode was.
C3_ClearIsSynchronous ==
    event.type = "change" /\ event.arg = "" =>
        /\ value = ""
        /\ results = Null
        /\ mode = "Suggesting"

\* The text was cleared while the overlay was in Open.Showing.
C3_Witness ==
    /\ event = [type |-> "change", arg |-> "", from |-> "Showing"]
    /\ results = Null
    /\ mode = "Suggesting"
    /\ isOpen

\* C4: no request with the empty query text is dispatched, and no debounce
\* timer is pending while the query text is empty: setQuery("") cancels it.
C4_NoEmptyQueryDispatched ==
    /\ \A i \in 1..Len(calls) :
          calls[i].call = "index.search" => calls[i].arg # ""
    /\ timer.pending => timer.lastArgs # ""
    /\ value = "" => ~timer.pending

\* setQuery("") cancelled the timer that setQuery("a") had scheduled.
C4_Witness ==
    /\ event.type = "change"
    /\ event.arg = ""
    /\ calls = << Call("search.cancel", "a") >>
    /\ ~timer.pending
    /\ nextId = 0

\* C5: while the query text is empty (after setQuery("")), the arrival of the
\* response of a request still in flight changes neither the stored results
\* nor the mode, which stays Suggesting.
C5_ResponseAfterClearIgnored ==
    [][\A r \in inflight :
         (arrives(r) /\ value = "") =>
             (results' = results /\ mode' = mode)]_vars

\* C6: storing a response recomputes the mode from its size, zero results
\* give Empty and one or more give Showing; Showing never holds with an empty
\* stored list and Empty never with a non-empty one.
C6_ModeFollowsResultCount ==
    /\ event.type = "response" =>
          /\ results.isArray
          /\ mode = IF Len(results.items) = 0 THEN "Empty" ELSE "Showing"
    /\ mode = "Showing" => results.isArray /\ Len(results.items) > 0
    /\ mode = "Empty" => results.isArray /\ Len(results.items) = 0
    /\ mode = "Suggesting" => ~results.isArray

\* A response with no results arrived while results were showing.
C6_Witness ==
    /\ event = [type |-> "response", arg |-> "", from |-> "Showing"]
    /\ results = Array(<< >>)
    /\ mode = "Empty"

\* C7: a failed request is treated as zero results: the mode becomes Empty,
\* the error is reported once, and isOpen and the query text are unchanged.
C7_FailureDegradesToEmpty ==
    [][(\E r \in inflight : arrives(r)) /\ event'.type = "failure" =>
          /\ results' = Array(<< >>)
          /\ mode' = "Empty"
          /\ calls' = << Call("console.error", "") >>
          /\ isOpen' = isOpen
          /\ value' = value]_vars

\* A request failed while results were showing: the overlay is open and Empty.
C7_Witness ==
    /\ event = [type |-> "failure", arg |-> "", from |-> "Showing"]
    /\ navState = "Empty"
    /\ value # ""
    /\ calls = << Call("console.error", "") >>

\* An Enter keydown handled while the overlay is open.
enterWhileOpen == isOpen /\ event'.type = "keydown" /\ event'.arg = "Enter"

\* C8 as stated: in Open.Empty Enter is a no-op, no navigation call is made.
C8_EnterInEmptyIsNoOp ==
    [][(enterWhileOpen /\ mode = "Empty" /\ value # "") =>
          (callsTo("navigateTo")' = << >> /\ isOpen' = isOpen)]_vars

\* C8 as amended: in Open.Empty Enter closes the overlay and calls navigateTo
\* exactly once, with the target of the suggestion at the suggestions cursor.
C8_EnterInEmptyOpensSuggestion ==
    [][(enterWhileOpen /\ mode = "Empty" /\ value # "") =>
          /\ calls' = << Call("navigateTo",
                              suggestedResults[suggestedIndex + 1].href) >>
          /\ ~isOpen']_vars

\* Enter in Open.Empty navigated to the third suggestion.
C8_Witness ==
    /\ event = [type |-> "keydown", arg |-> "Enter", from |-> "Empty"]
    /\ value # ""
    /\ calls = << Call("navigateTo", "/api/scroll/") >>
    /\ ~isOpen

\* C9: Enter while the overlay is open and the active list has a selected
\* result calls navigateTo exactly once, with the href of the result at the
\* active cursor's index in the active list, and the overlay becomes Closed.
C9_EnterNavigatesToSelected ==
    [][(enterWhileOpen /\
        hasSelected(IF isSuggesting THEN suggestedIndex ELSE resultIndex,
                    Len(activeList))) =>
          /\ calls' = << Call("navigateTo",
                 activeList[(IF isSuggesting THEN suggestedIndex
                                             ELSE resultIndex) + 1].href) >>
          /\ ~isOpen']_vars

\* Enter in Open.Showing navigated to a result that is not the first one of
\* the response as received.
C9_Witness ==
    /\ event = [type |-> "keydown", arg |-> "Enter", from |-> "Showing"]
    /\ ~isOpen
    /\ Len(results.items) = 3
    /\ calls = << Call("navigateTo", results.items[3].href) >>

\* C10: whenever the flattened result list is replaced by a response, also by
\* one non-empty list replacing another, the results cursor is 0 afterwards.
C10_ReplacementResetsCursor ==
    [][(event'.type = "response" /\ indexedResults' # indexedResults
        /\ ~isSuggesting') => resultIndex' = 0]_vars

\* The index of the cursor of the active list.
activeIndex == IF isSuggesting THEN suggestedIndex ELSE resultIndex

\* C11: whenever the active list is non-empty, the index of the active cursor
\* is within 0..N-1 for the current length N of that list, also after the
\* list was replaced by a shorter one: the selected result is an element of
\* the displayed list.
C11_ActiveCursorInRange ==
    Len(activeList) > 0 => activeIndex \in 0..(Len(activeList) - 1)

\* A step that takes the overlay from an Open state into Closed.
closes == isOpen /\ ~isOpen'

\* C12: on every transition into Closed, both the results cursor and the
\* suggestions cursor are at index 0 afterwards.
C12_CloseResetsBothCursors ==
    [][closes => (resultIndex' = 0 /\ suggestedIndex' = 0)]_vars

\* C13: on every transition into Closed the query text is cleared.
C13_CloseClearsQueryText ==
    [][closes => value' = ""]_vars

\* C14: from Open.Suggesting, Open.Showing and Open.Empty alike, an Escape
\* keypress or a click outside the input and dropdown moves the overlay to
\* Closed.
C14_EscapeOrOutsideClickCloses ==
    [][(isOpen /\ (event'.type = "close" \/
                   (event'.type = "keydown" /\ event'.arg = "Escape"))) =>
          (~isOpen' /\ navState' = "Closed")]_vars

\* Escape was pressed in Open.Empty and the overlay is closed.
C14_Witness ==
    /\ event = [type |-> "keydown", arg |-> "Escape", from |-> "Empty"]
    /\ ~isOpen

\* The results of s equal to x.
occurrences(s, x) == Cardinality({ i \in 1..Len(s) : s[i] = x })

\* a holds the elements of b, each as often as b does.
isPermutation(a, b) ==
    /\ Len(a) = Len(b)
    /\ \A i \in 1..Len(b) : occurrences(a, b[i]) = occurrences(b, b[i])

\* The (group, category) bucket of a result.
bucketOf(x) == << x.library, x.page >>

\* The results of one bucket are next to each other in s.
isContiguous(s) ==
    \A i, k \in 1..Len(s) :
        (i < k /\ bucketOf(s[i]) = bucketOf(s[k])) =>
            \A j \in i..k : bucketOf(s[j]) = bucketOf(s[i])

\* C15: for every non-empty list of results, flatten(categorize(list)) is a
\* permutation of the list, every result appearing exactly once, and the
\* results of the same (group, category) are contiguous in it.
C15_FlattenIsGroupedPermutation ==
    (results.isArray /\ results.items # << >>) =>
        /\ indexedResults = flattenSearchResults(Categorise(results.items))
        /\ isPermutation(indexedResults, results.items)
        /\ isContiguous(indexedResults)

\* A response whose results of two libraries share a page and interleave:
\* flattening moved the third result before the second.
C15_Witness ==
    /\ Len(results.items) = 3
    /\ results.items[1].library = "library"
    /\ results.items[2].library = "motion"
    /\ results.items[3].library = "library"
    /\ results.items[1].page = results.items[2].page
    /\ results.items[1].page = results.items[3].page
    /\ indexedResults =
          << results.items[1], results.items[3], results.items[2] >>
    /\ resultIndex = 1
    /\ selectedResult = results.items[3]

\* C16: the order in which the results are rendered is the order the cursor
\* traverses: the item at visual position i is the result the cursor selects
\* at index i, and the index attached to it is i.
C16_RenderOrderIsCursorOrder ==
    /\ Len(SearchResults) = Len(activeList)
    /\ \A i \in 1..Len(SearchResults) :
          /\ SearchResults[i].result = activeList[i]
          /\ SearchResults[i].index = i - 1
    /\ hasSelected(activeIndex, Len(activeList)) =>
          SearchResults[activeIndex + 1] =
              Item(IF isSuggesting THEN selectedSuggestedResult
                                   ELSE selectedResult, activeIndex)

\* ArrowDown moved the cursor to the last of three rendered results, which is
\* not the last result of the response as received.
C16_Witness ==
    /\ event.type = "keydown"
    /\ event.arg = "ArrowDown"
    /\ ~isSuggesting
    /\ resultIndex = 2
    /\ Len(results.items) = 3
    /\ SearchResults[3].result = results.items[2]
    /\ selectedResult = results.items[2]

\* A keydown of key handled while the overlay is open.
keyWhileOpen(key) ==
    isOpen /\ event'.type = "keydown" /\ event'.arg = key

\* The cursor index after k calls of next() from index i on a list of n.
RECURSIVE nextTimes(_, _, _)
nextTimes(i, n, k) ==
    IF k = 0 THEN i ELSE nextTimes(cursorNext(i, n), n, k - 1)

\* The index after ten next() calls from index 0 on a list of five.
tenNextOfFive == nextTimes(0, 5, 10)

\* C17: cursor movement is clamped and does not wrap: ArrowDown sets the
\* index of the active cursor to min(index+1, N-1) and ArrowUp sets it to
\* max(index-1, 0) for the length N > 0 of the active list; ArrowDown at the
\* last result leaves the index unchanged, and for N = 5 ten next() calls from
\* index 0 end at index 4.
C17_ArrowsClampWithoutWrapping ==
    [][/\ keyWhileOpen("ArrowDown") =>
            /\ activeIndex' = Min(activeIndex + 1, Len(activeList) - 1)
            /\ activeIndex = Len(activeList) - 1 => activeIndex' = activeIndex
       /\ keyWhileOpen("ArrowUp") =>
            activeIndex' = Max(activeIndex - 1, 0)
       /\ tenNextOfFive = 4]_vars

\* ArrowDown was pressed in Open.Showing on a list of one result: the cursor
\* is still on that result.
C17_Witness ==
    /\ event = [type |-> "keydown", arg |-> "ArrowDown", from |-> "Showing"]
    /\ Len(indexedResults) = 1
    /\ resultIndex = 0
    /\ isOpen

\* A step whose effects call set(0) on the results cursor.
resultsCursorSet ==
    closes \/ (isSuggesting' /\ ~isSuggesting)

\* C18: on a list of length 0, next(), previous() and set(i) raise no error
\* and leave the cursor index at 0; on a list of length N > 0, set(i) sets
\* the index to clamp(i, 0, N-1).
C18_EmptyListLeavesIndexAtZero ==
    [][/\ (resultsCursorSet /\ Len(indexedResults') = 0) =>
            resultIndex' = 0
       /\ (resultsCursorSet /\ Len(indexedResults') > 0) =>
            resultIndex' = 0
       /\ (isOpen /\ event'.type = "pointerenter") =>
            activeIndex' \in 0..(Len(activeList) - 1)
       /\ \A i \in 0..MaxHits :
            /\ cursorNext(0, 0) = 0
            /\ cursorPrevious(0) = 0
            /\ cursorSet(i, 0, 0) = 0]_vars

\* C19: exactly one cursor is active, the one of the presentation mode:
\* ArrowUp, ArrowDown and Enter while open act on the suggestions cursor and
\* the suggestion list in Suggesting and Empty, on the results cursor and the
\* flattened results in Showing, and never on both.
C19_KeysActOnActiveCursorOnly ==
    [][/\ (keyWhileOpen("ArrowUp") \/ keyWhileOpen("ArrowDown")) =>
            IF mode \in {"Suggesting", "Empty"}
            THEN /\ resultIndex' = resultIndex
                 /\ suggestedIndex' =
                       IF event'.arg = "ArrowUp"
                       THEN cursorPrevious(suggestedIndex)
                       ELSE cursorNext(suggestedIndex, Len(suggestedResults))
            ELSE /\ suggestedIndex' = suggestedIndex
                 /\ resultIndex' =
                       IF event'.arg = "ArrowUp"
                       THEN cursorPrevious(resultIndex)
                       ELSE cursorNext(resultIndex, Len(indexedResults))
       /\ keyWhileOpen("Enter") =>
            \A i \in 1..Len(calls') :
                calls'[i].call = "navigateTo" =>
                    calls'[i].arg =
                        IF mode \in {"Suggesting", "Empty"}
                        THEN suggestedResults[suggestedIndex + 1].href
                        ELSE indexedResults[resultIndex + 1].href]_vars

\* ArrowUp in Open.Empty moved the suggestions cursor and left the results
\* cursor, which is not at 0, where it was.
C19_Witness ==
    /\ event = [type |-> "keydown", arg |-> "ArrowUp", from |-> "Empty"]
    /\ mode = "Empty"
    /\ suggestedIndex = 1
    /\ resultIndex = 2

\* C20: the overlay stays operable: no event raises an exception, and Enter
\* does not fail when the selected result is undefined.
C20_NoEventRaises ==
    \A i \in 1..Len(calls) : calls[i].call # "TypeError"

\* A keydown of key handled while the overlay is closed, without meta, ctrl
\* or alt and while no other element holds the input focus.
keyWhileClosed(key) ==
    /\ ~isOpen
    /\ event'.type = "keydown"
    /\ event'.arg = key
    /\ event'.bodyFocused
    /\ ~event'.modifier

\* C21 as stated: the keypress of any single printable character while Closed
\* and while no other element holds the focus opens the overlay and makes the
\* query text that character, scheduling a debounced request for it.
C21_PrintableKeyOpensWithText ==
    [][\A key \in Printable \ {"/"} :
          keyWhileClosed(key) =>
              (isOpen' /\ value' = key /\ timer' = Timer(key))]_vars

\* C21 as amended: the keypress of a single word character (a letter, a
\* digit or the underscore) while Closed, without meta, ctrl or alt and while
\* no other element holds the focus, opens the overlay, makes the query text
\* that character and schedules a debounced request for it; no request is
\* dispatched by the keypress itself.
C21_WordKeyOpensWithText ==
    [][\A key \in Keys :
          (keyWhileClosed(key) /\ isWordKey(key)) =>
              /\ isOpen'
              /\ value' = key
              /\ timer' = Timer(key)
              /\ elapsed' = 0
              /\ nextId' = nextId
              /\ callsTo("index.search")' = << >>]_vars

\* The key "a" opened the closed overlay with the text "a" and a pending
\* timer for it.
C21_Witness ==
    /\ event = [type |-> "keydown", arg |-> "a", from |-> "Closed",
                modifier |-> FALSE, bodyFocused |-> TRUE]
    /\ isOpen
    /\ value = "a"
    /\ timer = Timer("a")
    /\ elapsed = 0

\* C22 as stated: a "/" keypress while the overlay is Closed opens it.
C22_SlashOpens ==
    [][keyWhileClosed("/") => isOpen']_vars

\* C22 as amended: a "/" keypress while the overlay is Closed leaves it
\* Closed and changes neither the query text nor the results nor the timer;
\* the closed overlay is opened by focus or by a word-character keypress.
C22_SlashIsIgnoredWhileClosed ==
    [][(~isOpen /\ event'.type = "keydown" /\ event'.arg = "/") =>
          /\ ~isOpen'
          /\ calls' = << >>
          /\ UNCHANGED << value, results, resultIndex, suggestedIndex, timer,
                          elapsed, inflight, nextId, burst >>]_vars

\* "/" was pressed on the closed overlay, with nothing else focused and no
\* modifier held, and the overlay is still closed.
C22_Witness ==
    /\ event = [type |-> "keydown", arg |-> "/", from |-> "Closed",
                modifier |-> FALSE, bodyFocused |-> TRUE]
    /\ ~isOpen

\* C23: every transition out of Closed caused by a focus event lands in
\* Open.Suggesting, also when the overlay was open in Showing or Empty before
\* it was closed.
C23_FocusOpensSuggesting ==
    [][(~isOpen /\ event'.type = "focus") =>
          (isOpen' /\ mode' = "Suggesting")]_vars

\* C24: in every reachable state in which the query text is empty, the
\* presentation mode is Suggesting, never Showing or Empty.
C24_EmptyTextIsSuggesting ==
    value = "" => mode = "Suggesting"

\* A step in which setQuery is called: a change of the input, or the key
\* that opens the closed overlay.
setQueryStep ==
    \/ event'.type = "change"
    \/ (~isOpen /\ isOpen' /\ event'.type = "keydown")

\* C25: at most one debounce timer is pending: every setQuery call discards
\* the pending timer, if any, before it schedules a new one, which starts its
\* window afresh and carries the text of that call; the call itself
\* dispatches nothing.
C25_SetQuerySupersedesPendingTimer ==
    [][setQueryStep =>
          /\ IF value' # ""
             THEN timer' = Timer(value') /\ elapsed' = 0
             ELSE timer' = NoTimer
          /\ timer'.pending => timer'.lastArgs = burst'[Len(burst')]
          /\ nextId' = nextId
          /\ inflight' = inflight]_vars

\* setQuery("b") replaced the timer that setQuery("a") had scheduled: one
\* timer is pending, for "b", and its window starts afresh.
C25_Witness ==
    /\ event.type = "change"
    /\ event.arg = "b"
    /\ burst = << "a", "b" >>
    /\ timer = Timer("b")
    /\ elapsed = 0
    /\ nextId = 0

firstPosition(s, Test(_)) ==
    CHOOSE i \in 1..Len(s) : Test(s[i]) /\ \A j \in 1..(i - 1) : ~Test(s[j])

\* Where the group of x, the category of x and x itself first occur in s.
orderKey(s, x) ==
    << firstPosition(s, LAMBDA y : y.library = x.library),
       firstPosition(s, LAMBDA y : y.library = x.library /\ y.page = x.page),
       firstPosition(s, LAMBDA y : y = x) >>

\* The lexicographic order of two such keys.
keyBefore(a, b) ==
    \/ a[1] < b[1]
    \/ a[1] = b[1] /\ a[2] < b[2]
    \/ a[1] = b[1] /\ a[2] = b[2] /\ a[3] < b[3]

\* The elements of t occur in s, in the same relative order.
keepsOrderOf(t, s) ==
    \A i, j \in 1..Len(t) :
        i < j => firstPosition(s, LAMBDA y : y = t[i])
                    < firstPosition(s, LAMBDA y : y = t[j])

\* C27: categorize is a stable two-level partition: the groups are in the
\* order of their first occurrence in the input, the categories of a group in
\* the order of their first occurrence, the results of a bucket in their
\* input order; flatten walks groups, then categories, then bucket results in
\* that order.
C27_StableTwoLevelPartition ==
    (results.isArray /\ results.items # << >>) =>
        LET s == results.items
            c == categorisedResults
        IN  /\ \A g, h \in 1..Len(c) :
                  g < h =>
                    firstPosition(s, LAMBDA y : y.library = c[g].key)
                      < firstPosition(s, LAMBDA y : y.library = c[h].key)
            /\ \A g \in 1..Len(c) :
                  LET pages == c[g].items
                  IN  /\ \A p, q \in 1..Len(pages) :
                            p < q =>
                              firstPosition(s, LAMBDA y :
                                  y.library = c[g].key
                                      /\ y.page = pages[p].key)
                                < firstPosition(s, LAMBDA y :
                                      y.library = c[g].key
                                          /\ y.page = pages[q].key)
                      /\ \A p \in 1..Len(pages) :
                            /\ pages[p].items # << >>
                            /\ keepsOrderOf(pages[p].items, s)
                            /\ \A i \in 1..Len(pages[p].items) :
                                  /\ pages[p].items[i].library = c[g].key
                                  /\ pages[p].items[i].page = pages[p].key
            /\ Len(indexedResults) = Len(s)
            /\ \A i, j \in 1..Len(indexedResults) :
                  i < j => keyBefore(orderKey(s, indexedResults[i]),
                                     orderKey(s, indexedResults[j]))

\* A response whose first result is of the page Scroll of one library, the
\* second of the other library and the third of the page Frame of the first
\* library: the flattened order is first, third, second, and the cursor at
\* the end selects the second.
C27_Witness ==
    /\ Len(results.items) = 3
    /\ results.items[1].library = results.items[3].library
    /\ results.items[1].library # results.items[2].library
    /\ results.items[1].page = "Scroll"
    /\ results.items[3].page = "Frame"
    /\ indexedResults =
          << results.items[1], results.items[3], results.items[2] >>
    /\ resultIndex = 2
    /\ selectedResult = results.items[2]

\* C28: Enter while the active cursor has no selected result is a no-op: no
\* navigation call is made, no error is raised and the state is unchanged.
C28_EnterWithoutSelectionIsNoOp ==
    [][(enterWhileOpen /\ ~hasSelected(activeIndex, Len(activeList))) =>
          /\ calls' = << >>
          /\ UNCHANGED << value, isOpen, results, resultIndex,
                          suggestedIndex, timer, elapsed, inflight, nextId,
                          burst >>]_vars

\* C29: on Enter the close comes before the navigation: the handler requests
\* the close first, so the overlay is Closed after every Enter, whether the
\* navigation statement that follows succeeds or raises, and every step that
\* calls navigateTo is an Enter that leaves the overlay Closed.
C29_CloseComesBeforeNavigation ==
    [][/\ enterWhileOpen => (~isOpen' /\ navState' = "Closed")
       /\ callsTo("navigateTo")' # << >> =>
            (enterWhileOpen /\ Len(calls') = 1 /\ ~isOpen')]_vars

\* Enter in Open.Suggesting navigated to the first suggestion and the overlay
\* is closed.
C29_Witness ==
    /\ event = [type |-> "keydown", arg |-> "Enter", from |-> "Suggesting"]
    /\ calls = << Call("navigateTo", librarySuggestedResults[1].href) >>
    /\ ~isOpen
    /\ value = ""

\* C30: every dispatched request has the limit 10 and carries the filter of
\* the library of the site section, and the filter of the page exactly when a
\* page name is known; it carries a token, different from the token of every
\* earlier request.
C30_RequestCarriesLimitFiltersAndToken ==
    [][nextId' = nextId + 1 =>
          LET request == calls'[1]
              filters == request.options.optionalFilters
              page == getPage(event'.title)
          IN  /\ request.call = "index.search"
              /\ request.options.hitsPerPage = 10
              /\ \E i \in 1..Len(filters) :
                    filters[i] = Filter("library", "library")
              /\ (page # NoPage) <=>
                    \E i \in 1..Len(filters) : filters[i].facet = "page"
              /\ \A i \in 1..Len(filters) :
                    filters[i].facet = "page" => filters[i].value = page
              /\ "token" \in DOMAIN request.options
                    \/ "token" \in DOMAIN request]_vars

\* The values handleKey would read in the current state.
currentlyRead ==
    [isOpen |-> isOpen,
     isSuggesting |-> isSuggesting,
     selectedResult |-> selectedOf(indexedResults, resultIndex),
     selectedSuggestedResult |-> selectedOf(suggestedResults, suggestedIndex)]

C32_NamedKeysIgnoredWhileClosed ==
    [][\A key \in {"ArrowUp", "ArrowDown", "Enter", "Escape"} :
          (~isOpen /\ event'.type = "keydown" /\ event'.arg = key) =>
              /\ calls' = << >>
              /\ UNCHANGED << value, isOpen, results, resultIndex,
                              suggestedIndex, timer, elapsed, inflight, nextId,
                              burst >>]_vars

\* Enter was pressed on the closed overlay while it stores the results of a
\* response: it is still closed and nothing was called.
C32_Witness ==
    /\ event = [type |-> "keydown", arg |-> "Enter", from |-> "Closed",
                modifier |-> FALSE, bodyFocused |-> TRUE]
    /\ ~isOpen
    /\ results.isArray
    /\ Len(results.items) > 0
    /\ calls = << >>

\* C33: when the first of two requests fails after the response of the
\* second one, the later one, has arrived and been stored, the failure does
\* not change the stored results or the mode.
C33_SupersededFailureDiscarded ==
    [][(/\ nextId = 2
        /\ 2 \in answered
        /\ event.type = "response"
        /\ arrives(1)
        /\ event'.type = "failure") =>
            (results' = results /\ mode' = mode)]_vars

\* C34: the firing of the debounce timer, the arrival of a response and the
\* failure of a request never change isOpen or the query text, and every step
\* that opens or closes the overlay is a focus, a key or a click event.
C34_AsyncEventsKeepOpenAndText ==
    [][/\ event'.type \in {"timer", "response", "failure"} =>
            UNCHANGED << isOpen, value >>
       /\ isOpen' # isOpen => event'.type \in {"focus", "keydown", "close"}]_vars

\* A response with hits arrived while the overlay was closed: it is stored
\* and the overlay is still closed.
C34_Witness ==
    /\ event = [type |-> "response", arg |-> "", from |-> "Closed"]
    /\ ~isOpen
    /\ results.isArray
    /\ Len(results.items) > 0
    /\ value # ""

\* C35: a keypress while Closed does not open the overlay and changes
\* neither the query text nor anything else when meta, ctrl or alt is held,
\* when an element other than the body holds the focus, or when the key is
\* not a single word character.
C35_GuardedKeypressIsIgnored ==
    [][(/\ ~isOpen
        /\ event'.type = "keydown"
        /\ \/ event'.modifier
           \/ ~event'.bodyFocused
           \/ ~isWordKey(event'.arg)) =>
            /\ ~isOpen'
            /\ calls' = << >>
            /\ UNCHANGED << value, results, resultIndex, suggestedIndex,
                            timer, elapsed, inflight, nextId, burst >>]_vars

\* "a" was pressed with meta, ctrl or alt held while the overlay was closed
\* and nothing else had the focus: the overlay is closed and the text empty.
C35_Witness ==
    /\ event = [type |-> "keydown", arg |-> "a", from |-> "Closed",
                modifier |-> TRUE, bodyFocused |-> TRUE]
    /\ ~isOpen
    /\ value = ""
    /\ timer = NoTimer

\* C36: ArrowUp and ArrowDown while open change at most the index of the
\* active cursor: isOpen, the query text, the stored results, the mode, the
\* index of the inactive cursor, the timer and the requests are unchanged and
\* nothing is called.
C36_ArrowsChangeOnlyActiveIndex ==
    [][\A key \in {"ArrowUp", "ArrowDown"} :
          keyWhileOpen(key) =>
              /\ calls' = << >>
              /\ mode' = mode
              /\ IF isSuggesting
                 THEN resultIndex' = resultIndex
                 ELSE suggestedIndex' = suggestedIndex
              /\ UNCHANGED << value, isOpen, results, timer, elapsed,
                              inflight, nextId, burst >>]_vars

\* ArrowDown on the suggestions moved their cursor to the second suggestion
\* while a request is in flight; the results cursor is where it was.
C36_Witness ==
    /\ event = [type |-> "keydown", arg |-> "ArrowDown", from |-> "Suggesting"]
    /\ isOpen
    /\ suggestedIndex = 1
    /\ resultIndex = 0
    /\ inflight # {}
    /\ calls = << >>

\* The rendered items whose data-index is the string index.
renderedAt(index) ==
    SelectSeq(SearchResults, LAMBDA item : dataIndex(item.index) = index)

\* C37: a pointer-enter on a rendered item with index i sets the cursor of
\* the list being rendered to i, so that the selected item of that list is
\* the hovered item; the other cursor, isOpen, the query text and the
\* results are unchanged.
C37_HoverSelectsHoveredItem ==
    [][event'.type = "pointerenter" =>
          /\ Len(renderedAt(event'.arg)) = 1
          /\ LET item == renderedAt(event'.arg)[1]
             IN  IF isSuggesting
                 THEN /\ suggestedIndex' = item.index
                      /\ suggestedResults[suggestedIndex' + 1] = item.result
                      /\ resultIndex' = resultIndex
                 ELSE /\ resultIndex' = item.index
                      /\ indexedResults[resultIndex' + 1] = item.result
                      /\ suggestedIndex' = suggestedIndex
          /\ UNCHANGED << isOpen, value, results >>]_vars

\* The pointer entered the third rendered item of a response whose rendered
\* order is not the order of the response: the results cursor is on it.
C37_Witness ==
    /\ event = [type |-> "pointerenter", arg |-> "2", from |-> "Showing"]
    /\ resultIndex = 2
    /\ indexedResults # results.items
    /\ selectedResult = SearchResults[3].result
    /\ suggestedIndex = 0

\* C38: after the component is unmounted no pending debounce timer
\* dispatches a request, and no response or failure that arrives changes the
\* state of the component.
C38_NothingHappensAfterUnmount ==
    [][~mounted =>
          /\ nextId' = nextId
          /\ callsTo("index.search")' = << >>
          /\ UNCHANGED << value, isOpen, results, resultIndex,
                          suggestedIndex >>]_vars

\* C39: the cursor of the side that is not active is at index 0: the results
\* cursor while the suggestions are rendered (Suggesting or Empty), the
\* suggestions cursor while the results are (Showing).
C39_InactiveCursorAtZero ==
    /\ isSuggesting => resultIndex = 0
    /\ ~isSuggesting => suggestedIndex = 0

\* C40: the "no results" notice is flagged exactly when the stored results
\* are an empty list, not the cleared value, and it is on the screen exactly
\* when the overlay is open with such results; whenever it is shown the
\* suggestion list is shown with it and the categorised results are not:
\* isEmpty implies isSuggesting.
C40_NoticeExactlyForEmptyList ==
    /\ isEmpty <=> (results.isArray /\ results.items = << >>)
    /\ noticeShown <=> (isOpen /\ results.isArray /\ results.items = << >>)
    /\ noticeShown =>
          (suggestionsShown /\ ~categorisedShown /\ SearchResults = SearchEmpty)
    /\ isEmpty => (isSuggesting /\ mode = "Empty")

\* A response without hits arrived for the text typed in the open overlay:
\* the notice is shown above the suggestions.
C40_Witness ==
    /\ event = [type |-> "response", arg |-> "", from |-> "Suggesting"]
    /\ isOpen
    /\ value # ""
    /\ results = Array(<< >>)
    /\ noticeShown
    /\ suggestionsShown

=============================================================================
